---- MODULE Spec2Model ----
(***************************************************************************)
(* A model of the libyaml adapter of serde-yaml: the pull decoder          *)
(* (src/libyaml/parser.rs), the push encoder (src/libyaml/emitter.rs) and  *)
(* the error snapshot (src/libyaml/error.rs).                              *)
(*                                                                         *)
(* The grammar engine (the unsafe_libyaml crate) is not part of the        *)
(* repository.  It is modelled as an environment: the definitions named    *)
(* Engine... state what the engine may do at each call, following the      *)
(* engine contract of the specification (section 6) and leaving open what  *)
(* the contract leaves open.  Everything else is translated from the       *)
(* source line by line.                                                    *)
(*                                                                         *)
(* Four specifications: SpecParser (the decoder's calls), SpecEmitter (the *)
(* encoder's calls), SpecLife (one component from new() to teardown, moves *)
(* of the value included) and SpecPure (the formatting and conversion      *)
(* functions applied to arguments of every shape).                         *)
(***************************************************************************)
EXTENDS Integers, Sequences, FiniteSets, TLC

\* ------------------------------------------------------------------ bounds
MaxDepth == 2       \* deepest nesting of collections the engine parses
MaxNodes == 3       \* node events (scalar, alias, collection start) per stream
MaxDocs == 2        \* documents per stream

\* ------------------------------------------------------- options, pointers
\* Option<T>
None == [some |-> FALSE]
Some(x) == [some |-> TRUE, val |-> x]

\* The terminator of a C string.
NUL == 0

\* A raw pointer: null, or the address of some bytes.
Null == [null |-> TRUE]
Ptr(bytes) == [null |-> FALSE, mem |-> bytes]

\* CStr::from_ptr(p).to_bytes(): the bytes before the first NUL.
RECURSIVE CStrBytes(_)
CStrBytes(mem) ==
    IF mem = <<>> \/ Head(mem) = NUL THEN <<>>
    ELSE <<Head(mem)>> \o CStrBytes(Tail(mem))

\* ------------------------------------------------------------ error.rs
\* sys::yaml_mark_t
MkMark(i, l, c) == [index |-> i, line |-> l, column |-> c]

\* Mark::default(): a zeroed yaml_mark_t.
DefaultMark == MkMark(0, 0, 0)

\* Error::get_parser_error: a snapshot of the handle's error fields.
get_parser_error(parser) ==
    [ kind           |-> parser.error,
      problem        |-> IF ~parser.problem.null
                         THEN Some(CStrBytes(parser.problem.mem)) ELSE None,
      problem_offset |-> parser.problem_offset,
      problem_mark   |-> parser.problem_mark,
      context        |-> IF ~parser.context.null
                         THEN Some(CStrBytes(parser.context.mem)) ELSE None,
      context_mark   |-> parser.context_mark ]

\* One write!(formatter, text, args...): the format string and its arguments.
Piece(text, args) == [text |-> text, args |-> args]

\* Display for Mark with `&&` in place of `||`.
mark_display_both(mark) ==
    IF mark.line # 0 /\ mark.column # 0
    THEN Piece("line {} column {}", <<mark.line + 1, mark.column + 1>>)
    ELSE Piece("position {}", <<mark.index>>)

\* impl Display for Mark
mark_display(mark) ==
    IF mark.line # 0 \/ mark.column # 0
    THEN Piece("line {} column {}", <<mark.line + 1, mark.column + 1>>)
    ELSE Piece("position {}", <<mark.index>>)

\* impl Debug for Mark: debug_struct("Mark") and its fields, in order.
mark_debug(mark) ==
    IF mark.line # 0 \/ mark.column # 0
    THEN [ name |-> "Mark",
           fields |-> << [field |-> "line", value |-> mark.line + 1],
                         [field |-> "column", value |-> mark.column + 1] >> ]
    ELSE [ name |-> "Mark",
           fields |-> << [field |-> "index", value |-> mark.index] >> ]

\* The test before the context mark is written, without the comparison with
\* the problem mark (as impl Debug for Error has it).
context_mark_shown_nonzero(error) ==
    error.context_mark.line # 0 \/ error.context_mark.column # 0

\* The test before the context mark is written in Display for Error.
context_mark_shown(error) ==
    /\ (error.context_mark.line # 0 \/ error.context_mark.column # 0)
    /\ (error.context_mark.line # error.problem_mark.line
          \/ error.context_mark.column # error.problem_mark.column)

\* impl Display for Error: the pieces written, in order.
error_display(error) ==
    ( IF error.problem.some
      THEN << Piece("{}", <<error.problem.val>>) >>
      ELSE << Piece("libyaml parser failed but there is no error", <<>>) >> )
    \o
    ( IF error.problem_mark.line # 0 \/ error.problem_mark.column # 0
      THEN << Piece(" at {}", <<mark_display(error.problem_mark)>>) >>
      ELSE IF error.problem_offset # 0
      THEN << Piece(" at position {}", <<error.problem_offset>>) >>
      ELSE << >> )
    \o
    ( IF error.context.some
      THEN << Piece(", {}", <<error.context.val>>) >>
           \o ( IF context_mark_shown(error)
                THEN << Piece(" at {}", <<mark_display(error.context_mark)>>) >>
                ELSE << >> )
      ELSE << >> )

\* ------------------------------------------------------------ parser.rs
\* The five scalar styles the engine reports for a parsed scalar.
ParsedStyles ==
    { "YAML_PLAIN_SCALAR_STYLE", "YAML_SINGLE_QUOTED_SCALAR_STYLE",
      "YAML_DOUBLE_QUOTED_SCALAR_STYLE", "YAML_LITERAL_SCALAR_STYLE",
      "YAML_FOLDED_SCALAR_STYLE" }

\* The marker of a panic (unwrap on None, unreachable!, unimplemented!).
Fatal == [type |-> "Fatal"]

\* parse_anchor / parse_tag: null => None, else the C string's bytes.
parse_anchor(anchor) == IF anchor.null THEN None ELSE Some(CStrBytes(anchor.mem))

parse_tag(tag) == IF tag.null THEN None ELSE Some(CStrBytes(tag.mem))

\* parse_value: null => None, else the first `length` bytes.
parse_value(value, length) ==
    IF value.null THEN None ELSE Some(SubSeq(value.mem, 1, length))

\* The style match with the two block styles exchanged.
convert_style_blocks_swapped(style) ==
    CASE style = "YAML_PLAIN_SCALAR_STYLE" -> "Plain"
      [] style = "YAML_SINGLE_QUOTED_SCALAR_STYLE" -> "SingleQuoted"
      [] style = "YAML_DOUBLE_QUOTED_SCALAR_STYLE" -> "DoubleQuoted"
      [] style = "YAML_LITERAL_SCALAR_STYLE" -> "Folded"
      [] style = "YAML_FOLDED_SCALAR_STYLE" -> "Literal"
      [] OTHER -> "unreachable"

\* The style match of convert_event.
convert_style(style) ==
    CASE style = "YAML_PLAIN_SCALAR_STYLE" -> "Plain"
      [] style = "YAML_SINGLE_QUOTED_SCALAR_STYLE" -> "SingleQuoted"
      [] style = "YAML_DOUBLE_QUOTED_SCALAR_STYLE" -> "DoubleQuoted"
      [] style = "YAML_LITERAL_SCALAR_STYLE" -> "Literal"
      [] style = "YAML_FOLDED_SCALAR_STYLE" -> "Folded"
      [] OTHER -> "unreachable"

\* convert_repr with the Cow test lost: a slice for every input.
convert_repr_unscoped(sys, cow) ==
    Some([from |-> sys.start_mark.index, to |-> sys.end_mark.index])

\* The repr field: a slice of the input between the marks, for a borrowed
\* input only.  The slice is named by its two offsets into the input.
convert_repr(sys, cow) ==
    IF cow = "Borrowed"
    THEN Some([from |-> sys.start_mark.index, to |-> sys.end_mark.index])
    ELSE None

\* The SEQUENCE-END arm returning the other collection's end.
convert_sequence_end_as_mapping == [type |-> "MappingEnd"]

\* The SEQUENCE-END arm of convert_event.
convert_sequence_end == [type |-> "SequenceEnd"]

\* The YAML_NO_EVENT arm answering with the end of the stream.
convert_no_event_as_stream_end == [type |-> "StreamEnd"]

\* The YAML_NO_EVENT arm of convert_event: unreachable!().
convert_no_event == Fatal

\* convert_event: the native event to the safe Event, or Fatal.
convert_event(sys, cow) ==
    CASE sys.type = "YAML_STREAM_START_EVENT" -> [type |-> "StreamStart"]
      [] sys.type = "YAML_STREAM_END_EVENT" -> [type |-> "StreamEnd"]
      [] sys.type = "YAML_DOCUMENT_START_EVENT" -> [type |-> "DocumentStart"]
      [] sys.type = "YAML_DOCUMENT_END_EVENT" -> [type |-> "DocumentEnd"]
      [] sys.type = "YAML_ALIAS_EVENT" ->
            IF parse_anchor(sys.anchor).some
            THEN [type |-> "Alias", anchor |-> parse_anchor(sys.anchor).val]
            ELSE Fatal
      [] sys.type = "YAML_SCALAR_EVENT" ->
            IF ~parse_value(sys.value, sys.length).some
               \/ convert_style(sys.style) = "unreachable"
            THEN Fatal
            ELSE [ type   |-> "Scalar",
                   anchor |-> parse_anchor(sys.anchor),
                   tag    |-> parse_tag(sys.tag),
                   value  |-> parse_value(sys.value, sys.length).val,
                   style  |-> convert_style(sys.style),
                   repr   |-> convert_repr(sys, cow) ]
      [] sys.type = "YAML_SEQUENCE_START_EVENT" ->
            [ type |-> "SequenceStart", anchor |-> parse_anchor(sys.anchor),
              tag |-> parse_tag(sys.tag) ]
      [] sys.type = "YAML_SEQUENCE_END_EVENT" -> convert_sequence_end
      [] sys.type = "YAML_MAPPING_START_EVENT" ->
            [ type |-> "MappingStart", anchor |-> parse_anchor(sys.anchor),
              tag |-> parse_tag(sys.tag) ]
      [] sys.type = "YAML_MAPPING_END_EVENT" -> [type |-> "MappingEnd"]
      [] sys.type = "YAML_NO_EVENT" -> convert_no_event
      [] OTHER -> Fatal

\* ------------------------------------------------- the engine's parser
\* sys::yaml_event_t as yaml_parser_parse fills it.  A zeroed event has type
\* YAML_NO_EVENT.
NoEvent == [type |-> "YAML_NO_EVENT", start_mark |-> DefaultMark, end_mark |-> DefaultMark]

PlainEvent(t, pos) ==
    [type |-> t, start_mark |-> MkMark(pos, 0, pos), end_mark |-> MkMark(pos, 0, pos)]

\* The anchors, tags and values the engine hands out: C strings it owns.
EngineAnchors == { Null, Ptr(<<1, NUL>>) }

EngineTags == { Null, Ptr(<<2, NUL>>) }

EngineValue == Ptr(<<3, NUL>>)

ScalarEvents(pos) ==
    { [ type |-> "YAML_SCALAR_EVENT", anchor |-> a, tag |-> t, value |-> EngineValue,
        length |-> 1, style |-> s,
        start_mark |-> MkMark(pos, 0, pos), end_mark |-> MkMark(pos + 1, 0, pos + 1) ] :
      a \in EngineAnchors, t \in EngineTags, s \in ParsedStyles }

AliasEvent(pos) ==
    [ type |-> "YAML_ALIAS_EVENT", anchor |-> Ptr(<<1, NUL>>),
      start_mark |-> MkMark(pos, 0, pos), end_mark |-> MkMark(pos + 1, 0, pos + 1) ]

StartEvents(t, pos) ==
    { [ type |-> t, anchor |-> a, tag |-> g,
        start_mark |-> MkMark(pos, 0, pos), end_mark |-> MkMark(pos + 1, 0, pos + 1) ] :
      a \in EngineAnchors, g \in EngineTags }

\* The handle after yaml_parser_initialize, set_encoding and set_input_string.
EngineParserInit ==
    [ state |-> "STREAM_START", stack |-> <<>>, nodes |-> 0, docs |-> 0, pos |-> 0,
      error |-> "YAML_NO_ERROR", problem |-> Null, problem_offset |-> 0,
      problem_mark |-> DefaultMark, context |-> Null, context_mark |-> DefaultMark ]

\* The errors the engine may raise at position pos: a reader error (offset only),
\* a scanner error with a context, a parser error without one.
EngineParseErrors(pos) ==
    { [ error |-> "YAML_READER_ERROR", problem |-> Ptr(<<4, NUL>>), problem_offset |-> pos,
        problem_mark |-> DefaultMark, context |-> Null, context_mark |-> DefaultMark ],
      [ error |-> "YAML_SCANNER_ERROR", problem |-> Ptr(<<5, NUL>>), problem_offset |-> 0,
        problem_mark |-> MkMark(pos, 1, pos), context |-> Ptr(<<6, NUL>>),
        context_mark |-> MkMark(0, 1, 0) ],
      [ error |-> "YAML_PARSER_ERROR", problem |-> Ptr(<<7, NUL>>), problem_offset |-> 0,
        problem_mark |-> MkMark(pos, 0, pos + 1), context |-> Null,
        context_mark |-> DefaultMark ] }

EngineProduce(h, ev, state, stack, isNode, isDoc) ==
    [ fail |-> FALSE, event |-> ev,
      handle |-> [h EXCEPT !.state = state, !.stack = stack, !.pos = ev.end_mark.index,
                           !.nodes = IF isNode THEN @ + 1 ELSE @,
                           !.docs = IF isDoc THEN @ + 1 ELSE @] ]

EngineFail(h, e) ==
    [ fail |-> TRUE, event |-> NoEvent,
      handle |-> [h EXCEPT !.error = e.error, !.problem = e.problem,
                           !.problem_offset = e.problem_offset,
                           !.problem_mark = e.problem_mark, !.context = e.context,
                           !.context_mark = e.context_mark] ]

\* After a node: back inside the enclosing collection, or at the end of the
\* document when the node was the root.
AfterNode(stack) == IF stack = <<>> THEN "DOCUMENT_END" ELSE "NODE"

\* yaml_parser_parse: every outcome the engine may produce on handle h.  The
\* engine walks the grammar (brackets balance, a scalar has a value and one of
\* the five styles), fails at any point with a sticky error, and once the
\* stream has ended or an error is set it returns without producing an event.
EngineParseOutcomes(h) ==
    IF h.error # "YAML_NO_ERROR"
    THEN { [fail |-> FALSE, event |-> NoEvent, handle |-> h],
           [fail |-> TRUE, event |-> NoEvent, handle |-> h] }
    ELSE IF h.state = "END"
    THEN { [fail |-> FALSE, event |-> NoEvent, handle |-> h] }
    ELSE
      { EngineFail(h, e) : e \in EngineParseErrors(h.pos) }
      \cup
      ( CASE h.state = "STREAM_START" ->
               { EngineProduce(h, PlainEvent("YAML_STREAM_START_EVENT", h.pos),
                               "DOCUMENT_START", <<>>, FALSE, FALSE) }
          [] h.state = "DOCUMENT_START" ->
               { EngineProduce(h, PlainEvent("YAML_STREAM_END_EVENT", h.pos),
                               "END", <<>>, FALSE, FALSE) }
               \cup
               ( IF h.docs < MaxDocs /\ h.nodes < MaxNodes
                 THEN { EngineProduce(h, PlainEvent("YAML_DOCUMENT_START_EVENT", h.pos),
                                      "NODE", <<>>, FALSE, TRUE) }
                 ELSE {} )
          [] h.state = "DOCUMENT_END" ->
               { EngineProduce(h, PlainEvent("YAML_DOCUMENT_END_EVENT", h.pos),
                               "DOCUMENT_START", <<>>, FALSE, FALSE) }
          [] h.state = "NODE" ->
               ( IF h.stack # <<>>
                 THEN { EngineProduce(h,
                          PlainEvent(IF Head(h.stack) = "seq"
                                     THEN "YAML_SEQUENCE_END_EVENT"
                                     ELSE "YAML_MAPPING_END_EVENT", h.pos),
                          AfterNode(Tail(h.stack)), Tail(h.stack), FALSE, FALSE) }
                 ELSE {} )
               \cup
               ( IF h.nodes < MaxNodes
                 THEN { EngineProduce(h, ev, AfterNode(h.stack), h.stack, TRUE, FALSE) :
                        ev \in ScalarEvents(h.pos) \cup {AliasEvent(h.pos)} }
                 ELSE {} )
               \cup
               ( IF h.nodes < MaxNodes /\ Len(h.stack) < MaxDepth
                 THEN { EngineProduce(h, ev, "NODE", <<"seq">> \o h.stack, TRUE, FALSE) :
                        ev \in StartEvents("YAML_SEQUENCE_START_EVENT", h.pos) }
                      \cup
                      { EngineProduce(h, ev, "NODE", <<"map">> \o h.stack, TRUE, FALSE) :
                        ev \in StartEvents("YAML_MAPPING_START_EVENT", h.pos) }
                 ELSE {} ) )

\* ------------------------------------------------------------- addresses
\* The places a Parser or Emitter value lives at: where new() returned it to,
\* and where a move takes it.
Places == {1, 2}

\* No address: nothing allocated, nothing registered.
Nowhere == [region |-> "none", slot |-> 0]

\* Box::new: the address of a fresh heap allocation.
BoxNew(slot) == [region |-> "heap", slot |-> slot]

\* The address of a value held inline at place `at`.
Place(at) == [region |-> "stack", slot |-> at]

\* Parser.pinned is a Box<ParserPinned>: the handle lives in the allocation,
\* wherever the Parser value is.
parser_pinned(at, box) == box

\* EmitterPinned held inline in the Emitter value.
emitter_pinned_inline(at, box) == Place(at)

\* Emitter.pinned is a Box<EmitterPinned<W>>: pinned.as_mut() is the address of
\* the allocation, wherever the Emitter value is.
emitter_pinned(at, box) == box

\* ------------------------------------------------------ the Parser's state
VARIABLES
    p_pc,       \* "unborn", "live", "dropped": the Parser value's life
    p_cow,      \* ParserPinned.input: "Borrowed" or "Owned"
    p_handle,   \* ParserPinned.handle: the engine's yaml_parser_t
    p_last,     \* what the last call of next() ended with
    p_via,      \* whether that call took the sticky branch or called the engine
    p_calls,    \* calls of yaml_parser_parse so far
    p_trace,    \* the types of the events next() has returned, in order
    p_deletes,  \* calls of yaml_parser_delete so far
    p_engine,   \* the events yaml_parser_parse has produced, in order
    p_at,       \* the place the Parser value itself lives at
    p_box       \* the address of the Box<ParserPinned> allocation

pvars == <<p_pc, p_cow, p_handle, p_last, p_via, p_calls, p_trace, p_deletes,
           p_engine, p_at, p_box>>

\* ----------------------------------------------------- the Emitter's state
VARIABLES
    e_pc,       \* "unborn", "live", "taken" (into_inner), "dropped"
    e_pinned,   \* EmitterPinned: handle, writer, error
    e_sink,     \* the sink's own state: write_all calls received, bytes stored
    e_plan,     \* the writes at which the sink fails
    e_last,     \* the last emit()/flush(): its result and what happened in it
    e_absent,   \* the callback has run with writer = None
    e_returned, \* what into_inner() returned
    e_fatal,    \* into_inner() panicked with "writer is already taken"
    e_deletes,  \* calls of yaml_emitter_delete so far
    e_at,       \* the place the Emitter value itself lives at
    e_box       \* the address of the Box<EmitterPinned> allocation

evars == <<e_pc, e_pinned, e_sink, e_plan, e_last, e_absent, e_returned, e_fatal,
           e_deletes, e_at, e_box>>

\* ------------------------------------------- formatting and conversions
VARIABLES
    f_op,       \* the function applied last: "mark", "error", "convert", "length"
    f_in,       \* its argument
    f_out       \* its result

fvars == <<f_op, f_in, f_out>>

\* The longest stream the engine produces, and two calls beyond it.
MaxCalls == 2 * MaxDocs + 2 * MaxNodes + 4

\* The zeroed handle of Parser::new before init.
ZeroedHandle == [EngineParserInit EXCEPT !.state = "ZEROED"]

ParserInit ==
    /\ p_pc = "unborn"
    /\ p_cow \in {"Borrowed", "Owned"}
    /\ p_handle = ZeroedHandle
    /\ p_last = [tag |-> "None"]
    /\ p_via = "none"
    /\ p_calls = 0
    /\ p_trace = <<>>
    /\ p_deletes = 0
    /\ p_engine = <<>>
    /\ p_at = 1
    /\ p_box = Nowhere

\* Drop for PinnedHandle without its yaml_parser_delete.
parser_handle_drop_forgotten(deletes) == deletes

\* Drop for PinnedHandle (parser): one yaml_parser_delete.
parser_handle_drop(deletes) == deletes + 1

\* Parser::new with PinnedHandle::init.  A failed yaml_parser_initialize panics;
\* the unwinding drops the Box and with it the handle.
ParserNew ==
    /\ p_pc = "unborn"
    /\ \E ok \in BOOLEAN :
         IF ok
         THEN /\ p_pc' = "live"
              /\ p_handle' = EngineParserInit
              /\ UNCHANGED p_deletes
         ELSE /\ p_pc' = "dropped"
              /\ p_handle' = [ZeroedHandle EXCEPT !.error = "YAML_MEMORY_ERROR"]
              /\ p_deletes' = parser_handle_drop(p_deletes)
    /\ p_box' = BoxNew(1)
    /\ UNCHANGED <<p_cow, p_last, p_via, p_calls, p_trace, p_engine, p_at>>
    /\ UNCHANGED <<evars, fvars>>

\* next() without its sticky check.
ParserHasError_unchecked(handle) == FALSE

\* The sticky check at the head of next().
ParserHasError(handle) == handle.error # "YAML_NO_ERROR"

\* next() returning the event with the mark of its end.
NextResult_end_mark(o, cow) ==
    IF o.fail
    THEN [tag |-> "Err", error |-> get_parser_error(o.handle)]
    ELSE IF convert_event(o.event, cow) = Fatal
    THEN [tag |-> "Fatal"]
    ELSE [tag |-> "Ok", event |-> convert_event(o.event, cow),
          mark |-> o.event.end_mark]

\* The result of next() once yaml_parser_parse has returned outcome o.
NextResult(o, cow) ==
    IF o.fail
    THEN [tag |-> "Err", error |-> get_parser_error(o.handle)]
    ELSE IF convert_event(o.event, cow) = Fatal
    THEN [tag |-> "Fatal"]
    ELSE [tag |-> "Ok", event |-> convert_event(o.event, cow),
          mark |-> o.event.start_mark]

\* Parser::next
ParserNext ==
    /\ p_pc = "live"
    /\ IF ParserHasError(p_handle)
       THEN /\ p_last' = [tag |-> "Err", error |-> get_parser_error(p_handle)]
            /\ p_via' = "sticky"
            /\ UNCHANGED <<p_handle, p_calls, p_trace, p_engine>>
       ELSE /\ p_calls < MaxCalls
            /\ \E o \in EngineParseOutcomes(p_handle) :
                 /\ p_handle' = o.handle
                 /\ p_last' = NextResult(o, p_cow)
                 /\ p_trace' = IF NextResult(o, p_cow).tag = "Ok"
                               THEN Append(p_trace, NextResult(o, p_cow).event.type)
                               ELSE p_trace
                 /\ p_engine' = IF o.fail THEN p_engine
                                ELSE Append(p_engine, [ type |-> o.event.type,
                                                        index |-> o.event.start_mark.index ])
            /\ p_via' = "parse"
            /\ p_calls' = p_calls + 1
    /\ UNCHANGED <<p_pc, p_cow, p_deletes, p_at, p_box>>
    /\ UNCHANGED <<evars, fvars>>

\* Dropping the Parser: PinnedHandle::drop runs yaml_parser_delete.
ParserDrop ==
    /\ p_pc = "live"
    /\ p_pc' = "dropped"
    /\ p_deletes' = parser_handle_drop(p_deletes)
    /\ UNCHANGED <<p_cow, p_handle, p_last, p_via, p_calls, p_trace, p_engine, p_at, p_box>>
    /\ UNCHANGED <<evars, fvars>>

\* The Parser value is moved to another place; the Box it holds moves with it,
\* the allocation does not.
ParserMove ==
    /\ p_pc = "live"
    /\ p_at' \in Places \ {p_at}
    /\ UNCHANGED <<p_pc, p_cow, p_handle, p_last, p_via, p_calls, p_trace, p_deletes,
                   p_engine, p_box>>
    /\ UNCHANGED <<evars, fvars>>

NextParser == ParserNew \/ ParserNext \/ ParserDrop

\* ------------------------------------------------------------ emitter.rs
\* emit_style with the quoted styles mixed up.
emit_style_double(style) ==
    CASE style = "Any" -> "YAML_ANY_SCALAR_STYLE"
      [] style = "Plain" -> "YAML_PLAIN_SCALAR_STYLE"
      [] style = "SingleQuoted" -> "YAML_DOUBLE_QUOTED_SCALAR_STYLE"
      [] style = "Literal" -> "YAML_LITERAL_SCALAR_STYLE"

\* emitter::ScalarStyle to the native style (the match in the Scalar arm).
emit_style(style) ==
    CASE style = "Any" -> "YAML_ANY_SCALAR_STYLE"
      [] style = "Plain" -> "YAML_PLAIN_SCALAR_STYLE"
      [] style = "SingleQuoted" -> "YAML_SINGLE_QUOTED_SCALAR_STYLE"
      [] style = "Literal" -> "YAML_LITERAL_SCALAR_STYLE"

\* tag.as_mut().map_or_else(null, |tag| { tag.push('\0'); tag.as_ptr() })
tag_ptr(tag) == IF tag.some THEN Ptr(Append(tag.val, NUL)) ELSE Null

\* The implicit flag hard-wired to true.
is_null_always(ptr) == TRUE

\* tag.is_null()
is_null(ptr) == ptr.null

\* A usize, held as two halves (hi * 65536 + lo) so that lengths beyond the
\* 32-bit range can be written down.
usize(n) == [hi |-> n \div 65536, lo |-> n % 65536]

\* scalar.value.len()
str_len(value) == usize(Len(value))

\* `len as i32`: the low 32 bits, read as a signed number.
as_i32(u) ==
    IF (u.hi % 65536) >= 32768
    THEN ((u.hi % 65536) - 65536) * 65536 + u.lo
    ELSE (u.hi % 65536) * 65536 + u.lo

\* The arguments emit() hands to the engine's yaml_*_event_initialize.
sys_event_initialize(event) ==
    CASE event.type = "StreamStart" ->
            [type |-> "YAML_STREAM_START_EVENT", encoding |-> "YAML_UTF8_ENCODING"]
      [] event.type = "StreamEnd" -> [type |-> "YAML_STREAM_END_EVENT"]
      [] event.type = "DocumentStart" ->
            [ type |-> "YAML_DOCUMENT_START_EVENT", version_directive |-> Null,
              tag_directives_start |-> Null, tag_directives_end |-> Null,
              implicit |-> TRUE ]
      [] event.type = "DocumentEnd" ->
            [type |-> "YAML_DOCUMENT_END_EVENT", implicit |-> TRUE]
      [] event.type = "Scalar" ->
            [ type |-> "YAML_SCALAR_EVENT", anchor |-> Null, tag |-> tag_ptr(event.tag),
              value |-> Ptr(event.value), length |-> as_i32(str_len(event.value)),
              plain_implicit |-> is_null(tag_ptr(event.tag)),
              quoted_implicit |-> is_null(tag_ptr(event.tag)),
              style |-> emit_style(event.style) ]
      [] event.type = "SequenceStart" ->
            [ type |-> "YAML_SEQUENCE_START_EVENT", anchor |-> Null,
              tag |-> tag_ptr(event.tag), implicit |-> is_null(tag_ptr(event.tag)),
              style |-> "YAML_ANY_SEQUENCE_STYLE" ]
      [] event.type = "SequenceEnd" -> [type |-> "YAML_SEQUENCE_END_EVENT"]
      [] event.type = "MappingStart" ->
            [ type |-> "YAML_MAPPING_START_EVENT", anchor |-> Null,
              tag |-> tag_ptr(event.tag), implicit |-> is_null(tag_ptr(event.tag)),
              style |-> "YAML_ANY_MAPPING_STYLE" ]
      [] event.type = "MappingEnd" -> [type |-> "YAML_MAPPING_END_EVENT"]

\* Error::get_emitter_error: a snapshot of the handle's error fields.
get_emitter_error(emitter) ==
    [ kind           |-> emitter.error,
      problem        |-> IF ~emitter.problem.null
                         THEN Some(CStrBytes(emitter.problem.mem)) ELSE None,
      problem_offset |-> 0,
      problem_mark   |-> DefaultMark,
      context        |-> None,
      context_mark   |-> DefaultMark ]

\* The values of emitter::Event the caller passes in.
EmitTags == { None, Some(<<2>>) }

EmitStyles == { "Any", "Plain", "SingleQuoted", "Literal" }

EmitValues == { <<3>> }

EmitEvents ==
    { [type |-> t] : t \in { "StreamStart", "StreamEnd", "DocumentStart", "DocumentEnd",
                             "SequenceEnd", "MappingEnd" } }
    \cup { [type |-> "Scalar", tag |-> g, value |-> v, style |-> s] :
           g \in EmitTags, v \in EmitValues, s \in EmitStyles }
    \cup { [type |-> t, tag |-> g] : t \in {"SequenceStart", "MappingStart"}, g \in EmitTags }

\* ----------------------------------------------------- sink and callback
MaxWrites == 2      \* write_all calls the sink receives in one run
BufCap == 1         \* bytes the engine buffers before it must write
MaxSteps == 2       \* steps the engine takes inside one yaml_emitter_emit

\* The machine the callback and the engine work on: m.pinned is the
\* EmitterPinned (handle, writer, error), m.sink the sink's own state, m.plan
\* the writes at which the sink fails; calls, failed and absent record what
\* happened during the current call.
Machine(pinned, sink, plan) ==
    [ pinned |-> pinned, sink |-> sink, plan |-> plan,
      calls |-> 0, failed |-> None, absent |-> FALSE ]

\* x.write_all(buf): the sink's n-th write fails when n is in the plan; a
\* failed write stores nothing.
write_all(m, size) ==
    IF (m.sink.writes + 1) \in m.plan
    THEN [ ok |-> FALSE, err |-> m.sink.writes + 1,
           sink |-> [m.sink EXCEPT !.writes = @ + 1] ]
    ELSE [ ok |-> TRUE, err |-> 0,
           sink |-> [m.sink EXCEPT !.writes = @ + 1, !.bytes = @ + size] ]

\* handler that signals a failed write without stashing the error.
handler_unstashed(m, size) ==
    IF m.pinned.writer.some
    THEN LET w == write_all(m, size)
         IN IF ~w.ok
            THEN [ ret |-> 0,
                   m |-> [m EXCEPT !.sink = w.sink, !.calls = @ + 1,
                                   !.failed = Some(w.err)] ]
            ELSE [ ret |-> 1, m |-> [m EXCEPT !.sink = w.sink, !.calls = @ + 1] ]
    ELSE [ ret |-> 1, m |-> [m EXCEPT !.calls = @ + 1, !.absent = TRUE] ]

\* handler that gives the writer up after a failed write.
handler_poisoning(m, size) ==
    IF m.pinned.writer.some
    THEN LET w == write_all(m, size)
         IN IF ~w.ok
            THEN [ ret |-> 0,
                   m |-> [m EXCEPT !.pinned.error = Some(w.err), !.pinned.writer = None,
                                   !.sink = w.sink, !.calls = @ + 1,
                                   !.failed = Some(w.err)] ]
            ELSE [ ret |-> 1, m |-> [m EXCEPT !.sink = w.sink, !.calls = @ + 1] ]
    ELSE [ ret |-> 1, m |-> [m EXCEPT !.calls = @ + 1, !.absent = TRUE] ]

\* handler::<W>: the write callback registered with the engine.
handler(m, size) ==
    IF m.pinned.writer.some
    THEN LET w == write_all(m, size)
         IN IF ~w.ok
            THEN [ ret |-> 0,
                   m |-> [m EXCEPT !.pinned.error = Some(w.err), !.sink = w.sink,
                                   !.calls = @ + 1, !.failed = Some(w.err)] ]
            ELSE [ ret |-> 1, m |-> [m EXCEPT !.sink = w.sink, !.calls = @ + 1] ]
    ELSE [ ret |-> 1, m |-> [m EXCEPT !.calls = @ + 1, !.absent = TRUE] ]

\* ------------------------------------------------ the engine's emitter
\* The handle after yaml_emitter_initialize, set_unicode, set_width, set_output.
EngineEmitterInit ==
    [ state |-> "READY", error |-> "YAML_NO_ERROR", problem |-> Null, buffer |-> 0,
      data |-> Nowhere ]

\* yaml_emitter_set_output: the engine keeps the callback's data pointer.
EngineSetOutput(handle, data) == [handle EXCEPT !.data = data]

\* The engine writes its buffer out through the callback; a callback that
\* returns 0 makes the engine call fail with a writer error.
EngineWrite(m) ==
    IF m.pinned.handle.buffer = 0
    THEN [fail |-> FALSE, m |-> m]
    ELSE LET h == handler(m, m.pinned.handle.buffer)
         IN IF h.ret = 1
            THEN [fail |-> FALSE, m |-> [h.m EXCEPT !.pinned.handle.buffer = 0]]
            ELSE [ fail |-> TRUE,
                   m |-> [h.m EXCEPT !.pinned.handle.error = "YAML_WRITER_ERROR",
                                     !.pinned.handle.problem = Ptr(<<8, NUL>>)] ]

\* One step of the engine inside a call: buffer a byte (writing the buffer out
\* first when it is full), write the buffer out, or reject the event.
EngineStep(m, step) ==
    CASE step = "put" ->
            IF m.pinned.handle.buffer < BufCap
            THEN [fail |-> FALSE, m |-> [m EXCEPT !.pinned.handle.buffer = @ + 1]]
            ELSE LET w == EngineWrite(m)
                 IN IF w.fail THEN w
                    ELSE [fail |-> FALSE, m |-> [w.m EXCEPT !.pinned.handle.buffer = 1]]
      [] step = "write" -> EngineWrite(m)
      [] step = "reject" ->
            [ fail |-> TRUE,
              m |-> [m EXCEPT !.pinned.handle.error = "YAML_EMITTER_ERROR",
                              !.pinned.handle.problem = Ptr(<<9, NUL>>)] ]

\* yaml_emitter_emit / yaml_emitter_flush: the engine runs its steps in order
\* and stops at the first that fails.
RECURSIVE EngineRun(_, _)
EngineRun(m, script) ==
    IF script = <<>> THEN [fail |-> FALSE, m |-> m]
    ELSE LET s == EngineStep(m, Head(script))
         IN IF s.fail THEN s ELSE EngineRun(s.m, Tail(script))

\* What the engine may do inside one yaml_emitter_emit: up to MaxSteps steps
\* of buffering and writing, then either success or the rejection of the event.
EngineProgress == UNION { [1..n -> {"put", "write"}] : n \in 0..MaxSteps }

EngineScripts ==
    EngineProgress
    \cup { Append(s, "reject") : s \in { t \in EngineProgress : Len(t) < MaxSteps } }

\* yaml_*_event_initialize: the initializers that copy strings (a scalar's tag
\* and value, a collection's tag) may fail; the others only fill in fields.
EngineInitializeMayFail(s) ==
    \/ s.type = "YAML_SCALAR_EVENT"
    \/ /\ s.type \in {"YAML_SEQUENCE_START_EVENT", "YAML_MAPPING_START_EVENT"}
       /\ ~s.tag.null

\* yaml_emitter_delete: releases the engine's memory; nothing is written.
EngineDelete(m) == [m EXCEPT !.pinned.handle.state = "DELETED"]


\* The sink passed to Emitter::new.
TheSink == "W"

NoCall ==
    [ op |-> "none", res |-> [tag |-> "None"], drove |-> FALSE, engine_failed |-> FALSE,
      stashed |-> None, calls |-> 0, failed |-> None,
      event |-> [type |-> "None"], sys |-> [type |-> "None"], at |-> 0 ]

EmitterInit ==
    /\ e_pc = "unborn"
    /\ e_pinned = [ handle |-> [EngineEmitterInit EXCEPT !.state = "ZEROED"],
                    writer |-> None, error |-> None ]
    /\ e_sink = [writes |-> 0, bytes |-> 0]
    /\ e_plan \in SUBSET (1..MaxWrites)
    /\ e_last = NoCall
    /\ e_absent = FALSE
    /\ e_returned = None
    /\ e_fatal = FALSE
    /\ e_deletes = 0
    /\ e_at = 1
    /\ e_box = Nowhere

\* Drop for PinnedHandle (emitter): one yaml_emitter_delete.
emitter_handle_drop(deletes) == deletes + 1

\* Emitter::new with PinnedHandle::init.  A failed yaml_emitter_initialize
\* panics; the unwinding drops the Box and with it the handle.
EmitterNew ==
    /\ e_pc = "unborn"
    /\ \E ok \in BOOLEAN :
         IF ok
         THEN /\ e_pc' = "live"
              /\ e_pinned' = [ handle |-> EngineSetOutput(EngineEmitterInit,
                                              emitter_pinned(e_at, BoxNew(2))),
                               writer |-> Some(TheSink), error |-> None ]
              /\ UNCHANGED e_deletes
         ELSE /\ e_pc' = "dropped"
              /\ e_pinned' = [ handle |-> [EngineEmitterInit EXCEPT
                                             !.state = "DELETED",
                                             !.error = "YAML_MEMORY_ERROR"],
                               writer |-> Some(TheSink), error |-> None ]
              /\ e_deletes' = emitter_handle_drop(e_deletes)
    /\ e_box' = BoxNew(2)
    /\ UNCHANGED <<e_sink, e_plan, e_last, e_absent, e_returned, e_fatal, e_at>>
    /\ UNCHANGED <<pvars, fvars>>

\* report that always answers with the engine's snapshot.
report_generic(m) ==
    [ res |-> [tag |-> "Libyaml", error |-> get_emitter_error(m.pinned.handle)],
      m |-> [m EXCEPT !.pinned.error = None] ]

\* The error emit() and flush() return when the engine call has failed:
\* error.take() first, the engine's snapshot otherwise.
report(m) ==
    IF m.pinned.error.some
    THEN [ res |-> [tag |-> "Io", error |-> m.pinned.error.val],
           m |-> [m EXCEPT !.pinned.error = None] ]
    ELSE [ res |-> [tag |-> "Libyaml", error |-> get_emitter_error(m.pinned.handle)],
           m |-> m ]

\* What a call leaves behind, given the engine's run r (or no run at all), and
\* the place the Emitter value was at when the call was made.
CallRecord(op, event, res, drove, r) ==
    [ op |-> op, res |-> res, drove |-> drove, engine_failed |-> drove /\ r.fail,
      stashed |-> r.m.pinned.error, calls |-> r.m.calls, failed |-> r.m.failed,
      event |-> event, sys |-> IF op = "emit" THEN sys_event_initialize(event)
                               ELSE [type |-> "None"],
      at |-> e_at ]

\* The end of emit() and flush() after the engine call returned r.
Finish(op, event, r) ==
    LET out == IF r.fail THEN report(r.m) ELSE [res |-> [tag |-> "Ok"], m |-> r.m]
    IN /\ e_pinned' = out.m.pinned
       /\ e_sink' = out.m.sink
       /\ e_absent' = (e_absent \/ out.m.absent)
       /\ e_last' = CallRecord(op, event, out.res, TRUE, r)

\* The early return of emit() when the event's initialization failed: the
\* engine is not called.
InitFailed(event, m) ==
    /\ e_last' = CallRecord("emit", event,
                  [tag |-> "Libyaml", error |-> get_emitter_error(e_pinned.handle)],
                  FALSE, [fail |-> FALSE, m |-> m])
    /\ UNCHANGED <<e_pinned, e_sink, e_absent>>

\* Emitter::emit
EmitterEmit ==
    /\ e_pc = "live"
    /\ \E event \in EmitEvents, run \in {<<"init_failed">>} \cup EngineScripts :
         LET m == Machine(e_pinned, e_sink, e_plan)
         IN IF run = <<"init_failed">>
            THEN /\ EngineInitializeMayFail(sys_event_initialize(event))
                 /\ InitFailed(event, m)
            ELSE LET r == EngineRun(m, run)
                 IN /\ r.m.sink.writes <= MaxWrites
                    /\ Finish("emit", event, r)
    /\ UNCHANGED <<e_pc, e_plan, e_returned, e_fatal, e_deletes, e_at, e_box>>
    /\ UNCHANGED <<pvars, fvars>>

\* Emitter::flush
EmitterFlush ==
    /\ e_pc = "live"
    /\ LET m == Machine(e_pinned, e_sink, e_plan)
           r == EngineRun(m, <<"write">>)
       IN /\ r.m.sink.writes <= MaxWrites
          /\ Finish("flush", [type |-> "None"], r)
    /\ UNCHANGED <<e_pc, e_plan, e_returned, e_fatal, e_deletes, e_at, e_box>>
    /\ UNCHANGED <<pvars, fvars>>

\* into_inner that flushes the engine before it takes the writer.
into_inner_flushing(m) ==
    [ taken |-> m.pinned.writer,
      m |-> [EngineRun(m, <<"write">>).m EXCEPT !.pinned.writer = None] ]

\* The body of into_inner(): self.pinned.writer.take()
into_inner(m) == [taken |-> m.pinned.writer, m |-> [m EXCEPT !.pinned.writer = None]]

\* Emitter::into_inner, and the drop of self at its end (on the panic of
\* expect() as well).
EmitterIntoInner ==
    /\ e_pc = "live"
    /\ LET r == into_inner(Machine(e_pinned, e_sink, e_plan))
       IN /\ e_pinned' = EngineDelete(r.m).pinned
          /\ e_sink' = EngineDelete(r.m).sink
          /\ e_absent' = (e_absent \/ EngineDelete(r.m).absent)
          /\ IF r.taken.some
             THEN /\ e_returned' = Some([sink |-> r.taken.val, bytes |-> r.m.sink.bytes])
                  /\ e_pc' = "taken"
                  /\ UNCHANGED e_fatal
             ELSE /\ e_fatal' = TRUE
                  /\ e_pc' = "dropped"
                  /\ UNCHANGED e_returned
    /\ e_deletes' = emitter_handle_drop(e_deletes)
    /\ UNCHANGED <<e_plan, e_last, e_at, e_box>>
    /\ UNCHANGED <<pvars, fvars>>

\* Dropping the Emitter: PinnedHandle::drop runs yaml_emitter_delete, then the
\* writer and the stashed error are dropped.
EmitterDrop ==
    /\ e_pc = "live"
    /\ e_pc' = "dropped"
    /\ e_pinned' = EngineDelete(Machine(e_pinned, e_sink, e_plan)).pinned
    /\ e_sink' = EngineDelete(Machine(e_pinned, e_sink, e_plan)).sink
    /\ e_absent' = (e_absent \/ EngineDelete(Machine(e_pinned, e_sink, e_plan)).absent)
    /\ e_deletes' = emitter_handle_drop(e_deletes)
    /\ UNCHANGED <<e_plan, e_last, e_returned, e_fatal, e_at, e_box>>
    /\ UNCHANGED <<pvars, fvars>>

\* The Emitter value is moved to another place; the Box it holds moves with it,
\* the allocation does not.
EmitterMove ==
    /\ e_pc = "live"
    /\ e_at' \in Places \ {e_at}
    /\ UNCHANGED <<e_pc, e_pinned, e_sink, e_plan, e_last, e_absent, e_returned, e_fatal,
                   e_deletes, e_box>>
    /\ UNCHANGED <<pvars, fvars>>

NextEmitter == EmitterNew \/ EmitterEmit \/ EmitterFlush \/ EmitterIntoInner \/ EmitterDrop

\* ------------------------------------- formatting and conversions applied
MaxMark == 2        \* largest index, line and column of a Mark

\* The Marks that are formatted.
PureMarks == { MkMark(i, l, c) : i, l, c \in 0..MaxMark }

\* The Errors that are displayed: any snapshot of the engine's error fields.
PureErrors ==
    { [ kind |-> k, problem |-> p, problem_offset |-> o, problem_mark |-> MkMark(0, pl, pc),
        context |-> c, context_mark |-> MkMark(0, cl, cc) ] :
      k \in {"YAML_SCANNER_ERROR", "YAML_WRITER_ERROR"},
      p \in {None, Some(<<4>>)}, o \in 0..MaxMark, pl \in 0..MaxMark, pc \in 0..MaxMark,
      c \in {None, Some(<<6>>)}, cl \in 0..MaxMark, cc \in 0..MaxMark }

\* format!("{}", mark) and format!("{:?}", mark)
FormatMark ==
    /\ f_op = "none"
    /\ \E mark \in PureMarks :
         /\ f_op' = "mark"
         /\ f_in' = mark
         /\ f_out' = [display |-> mark_display(mark), debug |-> mark_debug(mark)]
    /\ UNCHANGED <<pvars, evars>>

\* format!("{}", error)
DisplayError ==
    /\ f_op = "none"
    /\ \E error \in PureErrors :
         /\ f_op' = "error"
         /\ f_in' = error
         /\ f_out' = error_display(error)
    /\ UNCHANGED <<pvars, evars>>

\* The native events convert_event may be handed: every event type, with null
\* and non-null pointers, a value with a NUL inside it, and styles and a type
\* beyond the ones the match names.
NativeTypes ==
    { "YAML_NO_EVENT", "YAML_STREAM_START_EVENT", "YAML_STREAM_END_EVENT",
      "YAML_DOCUMENT_START_EVENT", "YAML_DOCUMENT_END_EVENT", "YAML_ALIAS_EVENT",
      "YAML_SCALAR_EVENT", "YAML_SEQUENCE_START_EVENT", "YAML_SEQUENCE_END_EVENT",
      "YAML_MAPPING_START_EVENT", "YAML_MAPPING_END_EVENT", "YAML_OTHER_EVENT" }

NativeStyles == ParsedStyles \cup {"YAML_ANY_SCALAR_STYLE", "YAML_OTHER_SCALAR_STYLE"}

NativeValues ==
    { [value |-> Null, length |-> 0], [value |-> Ptr(<<3, NUL>>), length |-> 1],
      [value |-> Ptr(<<3, NUL, 4, NUL>>), length |-> 3] }

NativeEvents ==
    { [ type |-> t, anchor |-> a, tag |-> g, value |-> v.value, length |-> v.length,
        style |-> s, start_mark |-> MkMark(1, 0, 1), end_mark |-> MkMark(2, 0, 2) ] :
      t \in NativeTypes, a \in EngineAnchors, g \in EngineTags, v \in NativeValues,
      s \in NativeStyles }

\* convert_event(&sys_event, input)
ConvertEvent ==
    /\ f_op = "none"
    /\ \E sys \in NativeEvents, cow \in {"Borrowed", "Owned"} :
         /\ f_op' = "convert"
         /\ f_in' = [sys |-> sys, cow |-> cow]
         /\ f_out' = convert_event(sys, cow)
    /\ UNCHANGED <<pvars, evars>>

\* The lengths a scalar's value may have, as the halves of a usize: short
\* values, and values around 2^31 and 2^32 bytes.
PureLengths ==
    { [hi |-> h, lo |-> l] : h \in {0, 1, 32767, 32768, 65535, 65536, 65537},
                             l \in {0, 1, 65535} }

\* scalar.value.len() as i32, in the Scalar arm of emit()
ScalarLength ==
    /\ f_op = "none"
    /\ \E len \in PureLengths :
         /\ f_op' = "length"
         /\ f_in' = len
         /\ f_out' = as_i32(len)
    /\ UNCHANGED <<pvars, evars>>

\* ------------------------------------------------------- specifications
vars == <<pvars, evars, fvars>>

\* No function has been applied.
PureInit == f_op = "none" /\ f_in = "none" /\ f_out = "none"

Init == ParserInit /\ EmitterInit /\ PureInit

Next == NextParser \/ NextEmitter

\* Both components side by side.
Spec == Init /\ [][Next]_vars

\* The Parser alone: the Emitter is never constructed.
InitParser == ParserInit /\ EmitterInit /\ e_plan = {} /\ PureInit

SpecParser == InitParser /\ [][NextParser]_vars

\* The Emitter alone: the Parser is never constructed.
InitEmitter == EmitterInit /\ ParserInit /\ p_cow = "Borrowed" /\ PureInit

SpecEmitter == InitEmitter /\ [][NextEmitter]_vars

\* One component through its whole life, from new() to its teardown, with the
\* moves of the Parser or Emitter value in between.
InitLife ==
    ParserInit /\ EmitterInit /\ PureInit /\ p_cow = "Borrowed" /\ e_plan = {1}

\* The Emitter is never constructed.
ParserAlone == e_pc = "unborn"

\* The Parser is never constructed.
EmitterAlone == p_pc = "unborn"

NextLife ==
    \/ ParserAlone /\ ParserNew
    \/ ParserAlone /\ ParserNext
    \/ ParserAlone /\ ParserMove
    \/ ParserAlone /\ ParserDrop
    \/ EmitterAlone /\ EmitterNew
    \/ EmitterAlone /\ EmitterEmit
    \/ EmitterAlone /\ EmitterFlush
    \/ EmitterAlone /\ EmitterMove
    \/ EmitterAlone /\ EmitterIntoInner
    \/ EmitterAlone /\ EmitterDrop

SpecLife == InitLife /\ [][NextLife]_vars

\* The functions of error.rs, convert_event and the length conversion of
\* emit(), applied to arguments of every shape; no Parser, no Emitter.
InitPure == ParserInit /\ p_cow = "Borrowed" /\ EmitterInit /\ e_plan = {} /\ PureInit

NextPure == FormatMark \/ DisplayError \/ ConvertEvent \/ ScalarLength

SpecPure == InitPure /\ [][NextPure]_vars

\* ---------------------------------------------------------------- claims
\* C1: once next() has returned Err, every later next() returns Err with the
\* same error snapshot, never Ok, and yaml_parser_parse is not called again.
C1_StickyDecoderError ==
    [][p_last.tag = "Err" => (p_last' = p_last /\ p_calls' = p_calls)]_vars

\* A next() that was called after an error and re-reported it.
C1_Witness == p_last.tag = "Err" /\ p_via = "sticky" /\ p_pc = "live"

\* C2: when the engine call inside emit() or flush() fails, the call returns Io
\* with the stashed sink error if one is stashed, and Libyaml with the engine's
\* snapshot only when none is.
C2_SinkErrorPrecedence ==
    e_last.engine_failed =>
        IF e_last.stashed.some
        THEN e_last.res.tag = "Io" /\ e_last.res.error = e_last.stashed.val
        ELSE /\ e_last.res.tag = "Libyaml"
             /\ e_last.res.error = get_emitter_error(e_pinned.handle)

\* A flush() whose engine call failed on a sink error.
C2_Witness ==
    e_last.op = "flush" /\ e_last.engine_failed /\ e_last.stashed.some
    /\ e_last.res.tag = "Io"

\* C3: the call during which the sink's n-th write failed returns Io with that
\* failure, an Io result always stems from a write of the same call, and the
\* stash EmitterPinned.error is empty whenever no call is running.
C3_SinkFailureSurfaced ==
    /\ e_last.failed.some
         => (e_last.res.tag = "Io" /\ e_last.res.error = e_last.failed.val)
    /\ e_last.res.tag = "Io"
         => (e_last.failed.some /\ e_last.failed.val = e_last.res.error)
    /\ ~e_pinned.error.some

\* The sink failed on its second write, inside an emit().
C3_Witness ==
    /\ e_last.op = "emit" /\ e_last.failed.some /\ e_last.failed.val = 2
    /\ e_last.res.tag = "Io"

\* C4: once emit() or flush() has returned an error, every later emit()/flush()
\* re-reports that error without driving the engine or writing to the sink.
C4_StickyEncoderError ==
    [][(e_last.res.tag \in {"Io", "Libyaml"} /\ e_last' # e_last)
         => (~e_last'.drove /\ e_last'.res = e_last.res /\ e_sink' = e_sink)]_vars

\* C5: the implicit flags handed to the engine for a Scalar, SequenceStart or
\* MappingStart are true exactly when the event's tag is None.
C5_ImplicitTagRule ==
    e_last.op = "emit" =>
        CASE e_last.event.type = "Scalar" ->
                /\ e_last.sys.plain_implicit = ~e_last.event.tag.some
                /\ e_last.sys.quoted_implicit = ~e_last.event.tag.some
          [] e_last.event.type \in {"SequenceStart", "MappingStart"} ->
                e_last.sys.implicit = ~e_last.event.tag.some
          [] OTHER -> TRUE

\* A tagged MappingStart went to the engine with implicit = false.
C5_Witness ==
    e_last.op = "emit" /\ e_last.event.type = "MappingStart"
    /\ e_last.event.tag.some /\ ~e_last.sys.implicit

\* C6: a Scalar returned by next() has repr = Some exactly when the Parser was
\* built over a borrowed input.
C6_ZeroCopyScoping ==
    (p_last.tag = "Ok" /\ p_last.event.type = "Scalar")
        => (p_last.event.repr.some <=> p_cow = "Borrowed")

\* A Scalar with a repr, decoded from a borrowed input.
C6_Witness ==
    p_last.tag = "Ok" /\ p_last.event.type = "Scalar" /\ p_cow = "Borrowed"
    /\ p_last.event.repr.some

\* The collections left open by a sequence of event types, innermost first;
\* <<"unbalanced">> when an End does not close the most recent Start.
RECURSIVE Nesting(_, _)
Nesting(trace, stack) ==
    IF trace = <<>> THEN stack
    ELSE CASE Head(trace) = "SequenceStart" -> Nesting(Tail(trace), <<"seq">> \o stack)
           [] Head(trace) = "MappingStart" -> Nesting(Tail(trace), <<"map">> \o stack)
           [] Head(trace) = "SequenceEnd" ->
                IF stack # <<>> /\ Head(stack) = "seq"
                THEN Nesting(Tail(trace), Tail(stack)) ELSE <<"unbalanced">>
           [] Head(trace) = "MappingEnd" ->
                IF stack # <<>> /\ Head(stack) = "map"
                THEN Nesting(Tail(trace), Tail(stack)) ELSE <<"unbalanced">>
           [] OTHER -> Nesting(Tail(trace), stack)

\* C7: at every prefix of the decoded stream each End closes the most recent
\* open Start of its kind; when StreamEnd is returned every collection is
\* closed; StreamEnd is the last event, and a stream that is exhausted ended
\* with it.
C7_Balance ==
    /\ Nesting(p_trace, <<>>) # <<"unbalanced">>
    /\ \A i \in 1..Len(p_trace) :
         p_trace[i] = "StreamEnd" => (i = Len(p_trace) /\ Nesting(p_trace, <<>>) = <<>>)
    /\ p_last.tag = "Fatal" => (p_trace # <<>> /\ p_trace[Len(p_trace)] = "StreamEnd")

\* A whole stream with a mapping nested in a sequence.
C7_Witness ==
    /\ p_trace # <<>> /\ p_trace[Len(p_trace)] = "StreamEnd"
    /\ \E i \in 1..Len(p_trace) - 1 :
         p_trace[i] = "SequenceStart" /\ p_trace[i + 1] = "MappingStart"

\* An event without its zero-copy repr.
StripRepr(ev) == IF ev.type = "Scalar" THEN [ev EXCEPT !.repr = None] ELSE ev

\* The native event the engine reports when it parses what it wrote for the
\* native event s: type, anchor, tag, value and style as requested (plain
\* when the style was left to the engine).
EngineReparse(s) ==
    CASE s.type = "YAML_SCALAR_EVENT" ->
            [ type |-> s.type, anchor |-> s.anchor, tag |-> s.tag,
              value |-> Ptr(Append(s.value.mem, NUL)), length |-> s.length,
              style |-> IF s.style = "YAML_ANY_SCALAR_STYLE"
                        THEN "YAML_PLAIN_SCALAR_STYLE" ELSE s.style,
              start_mark |-> DefaultMark, end_mark |-> DefaultMark ]
      [] s.type \in {"YAML_SEQUENCE_START_EVENT", "YAML_MAPPING_START_EVENT"} ->
            [ type |-> s.type, anchor |-> s.anchor, tag |-> s.tag,
              start_mark |-> DefaultMark, end_mark |-> DefaultMark ]
      [] OTHER -> [type |-> s.type, start_mark |-> DefaultMark, end_mark |-> DefaultMark]

\* The encode-side events that reproduce the decoded event ev.
ReEncodings(ev) ==
    { e \in EmitEvents :
        StripRepr(convert_event(EngineReparse(sys_event_initialize(e)), "Owned"))
            = StripRepr(ev) }

\* What emitter::Event can express of a decoded event: no alias, no anchor, and
\* of the scalar styles only Plain, SingleQuoted and Literal.
Encodable(ev) ==
    /\ ev.type # "Alias"
    /\ ev.type \in {"Scalar", "SequenceStart", "MappingStart"} => ~ev.anchor.some
    /\ ev.type = "Scalar" => ev.style \in {"Plain", "SingleQuoted", "Literal"}

C9_SinkHeld ==
    /\ ~e_fatal
    /\ ~e_absent
    /\ e_pc = "live" => e_pinned.writer = Some(TheSink)
    /\ e_pc = "taken" => (e_returned.some /\ e_returned.val.sink = TheSink)

\* into_inner() returned the sink after a call that had failed on the sink.
C9_Witness == e_pc = "taken" /\ e_returned.some /\ e_last.res.tag = "Io"

\* C10: into_inner() and the drop of the Emitter do not run the write callback
\* and leave the sink as the earlier calls left it; the sink into_inner()
\* returns holds those bytes, and what the engine still buffers is not written.
C10_NoImplicitFlush ==
    [][(e_pc = "live" /\ e_pc' # "live")
         => /\ e_sink' = e_sink
            /\ e_absent' = e_absent
            /\ e_returned'.some => e_returned'.val.bytes = e_sink.bytes]_vars

\* into_inner() returned the sink while the engine still held unwritten bytes.
C10_Witness ==
    /\ e_pc = "taken" /\ e_returned.some
    /\ e_pinned.handle.buffer > 0
    /\ e_returned.val.bytes = e_sink.bytes /\ e_sink.bytes > 0

\* C11: yaml_parser_delete and yaml_emitter_delete have run exactly once on the
\* handle of a Parser or Emitter that has ended (dropped, taken by into_inner(),
\* or unwound out of new() after a failed initialization), and not at all on one
\* that is not yet constructed or still alive.
C11_TeardownOnce ==
    /\ p_pc \in {"unborn", "live"} => p_deletes = 0
    /\ p_pc = "dropped" => p_deletes = 1
    /\ e_pc \in {"unborn", "live"} => e_deletes = 0
    /\ e_pc \in {"taken", "dropped"} => e_deletes = 1

\* Parser::new panicked on a failed yaml_parser_initialize and the unwinding
\* deleted the handle once.
C11_Witness ==
    p_pc = "dropped" /\ p_handle.error = "YAML_MEMORY_ERROR" /\ p_deletes = 1

\* C12: Display and Debug of a Mark with line = 0 and column = 0 show the byte
\* offset (index) and nothing else; of any other Mark they show line + 1 and
\* column + 1.
C12_MarkFormatting ==
    f_op = "mark" =>
        /\ (f_in.line = 0 /\ f_in.column = 0) =>
              /\ f_out.display.text = "position {}"
              /\ f_out.display.args = <<f_in.index>>
              /\ Len(f_out.debug.fields) = 1
              /\ f_out.debug.fields[1] = [field |-> "index", value |-> f_in.index]
        /\ ~(f_in.line = 0 /\ f_in.column = 0) =>
              /\ f_out.display.text = "line {} column {}"
              /\ f_out.display.args = <<f_in.line + 1, f_in.column + 1>>
              /\ Len(f_out.debug.fields) = 2
              /\ f_out.debug.fields[1] = [field |-> "line", value |-> f_in.line + 1]
              /\ f_out.debug.fields[2] = [field |-> "column", value |-> f_in.column + 1]

\* A Mark on the first line, past the first column, shown as line 1 column 3.
C12_Witness ==
    /\ f_op = "mark" /\ f_in.line = 0 /\ f_in.column = 2
    /\ f_out.display.text = "line {} column {}" /\ f_out.display.args = <<1, 3>>

\* The pieces of a displayed Error with the format string text.
PiecesOf(out, text) == { i \in 1..Len(out) : out[i].text = text }

\* A Mark whose line or column is not zero.
Located(mark) == mark.line # 0 \/ mark.column # 0

\* The two marks differ in line or column.
Apart(m1, m2) == m1.line # m2.line \/ m1.column # m2.column

\* C13 as stated: the problem position is written as line/column when the
\* problem mark is located and as the byte offset otherwise, and the context
\* text and the context mark are written only when the context position differs
\* from the problem position.
C13_DisplayContextRule ==
    f_op = "error" =>
        /\ Len(f_out) >= 2
        /\ IF Located(f_in.problem_mark)
           THEN f_out[2].text = " at {}" /\ f_out[2].args = <<mark_display(f_in.problem_mark)>>
           ELSE f_out[2].text = " at position {}" /\ f_out[2].args = <<f_in.problem_offset>>
        /\ PiecesOf(f_out, ", {}") # {} => Apart(f_in.context_mark, f_in.problem_mark)
        /\ Len(f_out) > 3 => Apart(f_in.context_mark, f_in.problem_mark)

\* C13 as amended: after the problem text, the problem position is written as
\* line/column when the problem mark is located, as the byte offset when it is
\* not and the offset is not zero, and not at all otherwise; the context text
\* is written whenever there is a context; the context mark follows it exactly
\* when it is located and differs from the problem mark in line or column.
C13_DisplayRule ==
    f_op = "error" =>
        LET pos == IF Located(f_in.problem_mark) \/ f_in.problem_offset # 0 THEN 1 ELSE 0
            ctx == IF f_in.context.some THEN 1 ELSE 0
            cmk == IF f_in.context.some /\ Located(f_in.context_mark)
                      /\ Apart(f_in.context_mark, f_in.problem_mark) THEN 1 ELSE 0
        IN /\ Len(f_out) = 1 + pos + ctx + cmk
           /\ IF f_in.problem.some
              THEN f_out[1].text = "{}" /\ f_out[1].args = <<f_in.problem.val>>
              ELSE f_out[1].text = "libyaml parser failed but there is no error"
           /\ Located(f_in.problem_mark) =>
                 /\ f_out[2].text = " at {}"
                 /\ f_out[2].args = <<mark_display(f_in.problem_mark)>>
           /\ (~Located(f_in.problem_mark) /\ f_in.problem_offset # 0) =>
                 /\ f_out[2].text = " at position {}"
                 /\ f_out[2].args = <<f_in.problem_offset>>
           /\ ctx = 1 =>
                 /\ f_out[1 + pos + 1].text = ", {}"
                 /\ f_out[1 + pos + 1].args = <<f_in.context.val>>
           /\ cmk = 1 =>
                 /\ f_out[Len(f_out)].text = " at {}"
                 /\ f_out[Len(f_out)].args = <<mark_display(f_in.context_mark)>>

\* An Error whose context mark equals its problem mark: the context text is
\* written, its mark is not.
C13_Witness ==
    /\ f_op = "error" /\ f_in.context.some
    /\ Located(f_in.context_mark) /\ ~Apart(f_in.context_mark, f_in.problem_mark)
    /\ Len(f_out) = 3 /\ f_out[3].text = ", {}"

\* C14: while a Parser or Emitter is alive the address of its pinned part, and
\* so of the engine handle in it, is the same after every call and every move of
\* the value; and the data pointer the engine holds for the write callback is
\* the address of the live EmitterPinned.
C14_PinnedStable ==
    [][ /\ (p_pc = "live" /\ p_pc' = "live")
             => parser_pinned(p_at', p_box') = parser_pinned(p_at, p_box)
        /\ (e_pc = "live" /\ e_pc' = "live")
             => emitter_pinned(e_at', e_box') = emitter_pinned(e_at, e_box)
        /\ e_pc' = "live"
             => e_pinned'.handle.data = emitter_pinned(e_at', e_box') ]_vars

\* An Emitter that was moved after new(), and whose write callback has run
\* during a call made after the move.
C14_Witness ==
    /\ e_pc = "live" /\ e_last.at = 2 /\ e_last.calls > 0
    /\ e_pinned.handle.data = emitter_pinned(e_at, e_box)

\* The Event variant named like the native event type.
EventName(type) ==
    CASE type = "YAML_STREAM_START_EVENT" -> "StreamStart"
      [] type = "YAML_STREAM_END_EVENT" -> "StreamEnd"
      [] type = "YAML_DOCUMENT_START_EVENT" -> "DocumentStart"
      [] type = "YAML_DOCUMENT_END_EVENT" -> "DocumentEnd"
      [] type = "YAML_ALIAS_EVENT" -> "Alias"
      [] type = "YAML_SCALAR_EVENT" -> "Scalar"
      [] type = "YAML_SEQUENCE_START_EVENT" -> "SequenceStart"
      [] type = "YAML_SEQUENCE_END_EVENT" -> "SequenceEnd"
      [] type = "YAML_MAPPING_START_EVENT" -> "MappingStart"
      [] type = "YAML_MAPPING_END_EVENT" -> "MappingEnd"
      [] OTHER -> "none"

\* C15: a next() on an error-free handle calls yaml_parser_parse exactly once
\* (and a next() on a failed handle not at all); the i-th event returned is the
\* translation of the i-th event the engine produced; and a call that returns
\* Ok returns the event the engine produced last, with that event's start mark,
\* so that nothing is skipped, repeated or produced ahead.
C15_NoReordering ==
    [][ /\ (p_pc = "live" /\ p_pc' = "live" /\ p_at' = p_at)
             => p_calls' = IF p_handle.error # "YAML_NO_ERROR" THEN p_calls
                           ELSE p_calls + 1
        /\ Len(p_engine') <= p_calls'
        /\ Len(p_trace') <= Len(p_engine')
        /\ \A i \in 1..Len(p_trace') : p_trace'[i] = EventName(p_engine'[i].type)
        /\ p_last'.tag = "Ok"
             => /\ Len(p_trace') = Len(p_engine')
                /\ p_last'.event.type = EventName(p_engine'[Len(p_engine')].type)
                /\ p_last'.mark.index = p_engine'[Len(p_engine')].index ]_vars

\* next() returned a scalar that starts past the beginning of the input, as
\* the fourth event or later.
C15_Witness ==
    /\ p_last.tag = "Ok" /\ p_last.event.type = "Scalar" /\ p_last.mark.index > 0
    /\ Len(p_trace) >= 4 /\ Len(p_trace) = p_calls

\* C16: once next() has returned Ok(StreamEnd), a later next() returns no
\* event: the engine produces none (YAML_NO_EVENT) and the call ends in the
\* fatal path, neither Ok nor Err.
C16_StreamEndFinal ==
    [][ ( /\ p_trace # <<>> /\ p_trace[Len(p_trace)] = "StreamEnd"
          /\ p_pc' = "live" /\ p_at' = p_at )
        => /\ p_trace' = p_trace
           /\ p_engine'[Len(p_engine')].type = "YAML_NO_EVENT"
           /\ p_last'.tag = "Fatal" ]_vars

\* A next() after the end of the stream has panicked.
C16_Witness ==
    /\ p_last.tag = "Fatal" /\ p_trace # <<>> /\ p_trace[Len(p_trace)] = "StreamEnd"
    /\ p_calls = Len(p_trace) + 1

\* The ScalarStyle named like the native style.
StyleName(style) ==
    CASE style = "YAML_PLAIN_SCALAR_STYLE" -> "Plain"
      [] style = "YAML_SINGLE_QUOTED_SCALAR_STYLE" -> "SingleQuoted"
      [] style = "YAML_DOUBLE_QUOTED_SCALAR_STYLE" -> "DoubleQuoted"
      [] style = "YAML_LITERAL_SCALAR_STYLE" -> "Literal"
      [] style = "YAML_FOLDED_SCALAR_STYLE" -> "Folded"
      [] OTHER -> "none"

\* The native events convert_event has no Event for.
Untranslatable(sys) ==
    \/ EventName(sys.type) = "none"
    \/ sys.type = "YAML_ALIAS_EVENT" /\ sys.anchor.null
    \/ sys.type = "YAML_SCALAR_EVENT" /\ (sys.value.null \/ StyleName(sys.style) = "none")

\* C17: convert_event ends in the fatal path exactly for an event type outside
\* the ten, an alias without anchor, a scalar without value and a scalar style
\* outside the five; every other event becomes the variant named like its type,
\* a scalar with the first `length` bytes of the value and the style named like
\* the native one, and with anchor and tag Some (holding the C string) exactly
\* for a non-null pointer.
C17_EventTranslation ==
    f_op = "convert" =>
        LET sys == f_in.sys
        IN IF Untranslatable(sys) THEN f_out.type = "Fatal"
           ELSE /\ f_out.type = EventName(sys.type)
                /\ sys.type = "YAML_ALIAS_EVENT" => f_out.anchor = <<1>>
                /\ sys.type \in { "YAML_SCALAR_EVENT", "YAML_SEQUENCE_START_EVENT",
                                   "YAML_MAPPING_START_EVENT" }
                     => /\ f_out.anchor.some = ~sys.anchor.null
                        /\ f_out.anchor.some => f_out.anchor.val = <<1>>
                        /\ f_out.tag.some = ~sys.tag.null
                        /\ f_out.tag.some => f_out.tag.val = <<2>>
                /\ sys.type = "YAML_SCALAR_EVENT"
                     => /\ Len(f_out.value) = sys.length
                        /\ \A i \in 1..sys.length : f_out.value[i] = sys.value.mem[i]
                        /\ f_out.style = StyleName(sys.style)

\* A folded scalar whose value holds a NUL byte, with an anchor and no tag.
C17_Witness ==
    /\ f_op = "convert" /\ f_out.type = "Scalar" /\ f_out.style = "Folded"
    /\ f_out.value = <<3, NUL, 4>> /\ f_out.anchor.some /\ ~f_out.tag.some

\* C18: an emit() whose event could not be initialized returns Libyaml without
\* the engine having been driven, the write callback having run or the sink
\* having changed, and the error it returns has a kind other than the no-error
\* sentinel YAML_NO_ERROR.
C18_InitFailureTyped ==
    [][ (e_pc = "live" /\ e_pc' = "live" /\ e_at' = e_at
         /\ e_last'.op = "emit" /\ ~e_last'.drove)
        => /\ e_last'.res.tag = "Libyaml"
           /\ e_last'.calls = 0
           /\ e_sink' = e_sink
           /\ e_last'.res.error.kind # "YAML_NO_ERROR" ]_vars

\* C19: the length emit() hands to the engine for a scalar is the byte length of
\* the value: not negative, and the same number.
C19_LengthNoWrap ==
    f_op = "length" =>
        /\ f_out >= 0
        /\ f_out \div 65536 = f_in.hi
        /\ f_out % 65536 = f_in.lo

====
